---- MODULE Spec2Model ----
(***************************************************************************)
(* Job-Board-Platform: the application ledger (routes/applications.js),    *)
(* the job routes that share its stores, the role middleware and the       *)
(* socket.io wiring of server.js, as a state machine of concurrently       *)
(* running request handlers.  Every `await` of a handler is a point where  *)
(* other handlers may run; the code between two awaits is one action.      *)
(* A handler's start is merged with its first store read: the start reads  *)
(* no shared state, so this loses no interleaving.  The rate limiters and  *)
(* passport's token check run before the handlers and are not modelled:    *)
(* the requests are those of authenticated users that the limiters pass.   *)
(***************************************************************************)
EXTENDS Integers, Sequences, FiniteSets, TLC

\* ---------------------------------------------------------------- bounds
MaxJobs == 2        \* job ids that POST /jobs may allocate
MaxInFlight == 2    \* request handlers that may be in progress at once
MaxRequests == 3    \* requests issued in one behaviour
MaxClock == 1       \* the values of Date.now() are 0 .. MaxClock

\* ---------------------------------------------------------------- users
\* The identity store is never written by the modelled routes: a fixed set
\* of authenticated users (req.user of passport's JWT strategy).
Users == {"E1", "E2", "C1", "C2", "A1"}

Role(u) ==
  CASE u \in {"E1", "E2"} -> "employer"
    [] u \in {"C1", "C2"} -> "candidate"
    [] OTHER -> "admin"

JobIds == 1 .. MaxJobs

\* models/application: enum of ApplicationSchema.status
StatusEnum == {"pending", "reviewing", "rejected", "accepted"}
\* models/application: default of ApplicationSchema.status
StatusDefault == "pending"
\* status strings a client may send: the enum and one outside of it
StatusInputs == StatusEnum \cup {"bogus"}

\* An id string that casts to an ObjectId (ids <= 0 stand for malformed ids,
\* on which mongoose throws a CastError of kind 'ObjectId')
IsObjectId(id) == id > 0

VARIABLES
  jobs,          \* Job collection: id -> document (st: unused | live | removed)
  applications,  \* Application collection in insertion order; _id = position
  emitted,       \* events handed to socket.io, in emission order
  req,           \* handler slot -> the request in progress and its locals
  sent,          \* the request answered last, its locals and its response
  issued         \* requests issued so far

vars == <<jobs, applications, emitted, req, sent, issued>>

Slots == 1 .. MaxInFlight

NoJob == [id |-> 0, employer |-> "none", isActive |-> FALSE, title |-> "none"]
NoApp == [id |-> 0, job |-> 0, candidate |-> "none", status |-> "none", createdAt |-> 0]
NoRes == [code |-> 0, body |-> <<>>]
UnusedJob == [st |-> "unused", employer |-> "none", isActive |-> FALSE, title |-> "none"]
RemovedJob == [st |-> "removed", employer |-> "none", isActive |-> FALSE, title |-> "none"]

Idle ==
  [op |-> "idle", pc |-> "idle", user |-> "none", jobId |-> 0, appId |-> 0,
   status |-> "none", isActive |-> "unset", title |-> "unset", resume |-> FALSE,
   job |-> NoJob, application |-> NoApp, res |-> NoRes]

\* ------------------------------------------------------------ middleware
authorizeEmployer(u) == Role(u) = "employer"
authorizeCandidate(u) == Role(u) = "candidate"

\* ---------------------------------------------------------------- stores
\* Job.findById(id): the document, or null
JobFindById(id) ==
  IF id \in JobIds /\ jobs[id].st = "live"
  THEN [id |-> id, employer |-> jobs[id].employer,
        isActive |-> jobs[id].isActive, title |-> jobs[id].title]
  ELSE NoJob

\* Job.findOne({ _id: jobId, isActive: true })
JobFindOneActive(id) ==
  LET j == JobFindById(id) IN IF j.id # 0 /\ j.isActive THEN j ELSE NoJob

AppDoc(i) ==
  [id |-> i, job |-> applications[i].job, candidate |-> applications[i].candidate,
   status |-> applications[i].status, createdAt |-> applications[i].createdAt]

AppIds == 1 .. Len(applications)

\* Application.findById(id)
ApplicationFindById(id) == IF id \in AppIds THEN AppDoc(id) ELSE NoApp

\* Application.findOne({ job, candidate }) != null
ApplicationExists(j, c) ==
  \E i \in AppIds : applications[i].job = j /\ applications[i].candidate = c

\* (mutant) the collection without its unique index
NoUniqueIndex(j, c) == TRUE

\* The unique index { job: 1, candidate: 1 }: an insert of a pair already
\* present is refused by the store (E11000 duplicate key, thrown by save()).
UniqueIndexAdmits(j, c) == ~ApplicationExists(j, c)

\* req.app.get('io'): server.js creates io and calls socketSetup(io), which
\* sets io.app = io; nothing calls app.set('io', io), so the setting is
\* undefined in every handler.
AppGetIo == "undefined"

\* req.app.get('io').to(room).emit(name, payload) and io.emit(name, payload):
\* TRUE iff the expression throws (a TypeError on an undefined io).
EmitThrows == AppGetIo = "undefined"

\* The payload fields of the events of the modelled routes, 0 / "none" where an
\* event does not carry the field.
Payload(jobId, jobTitle, applicationId, newStatus) ==
  [jobId |-> jobId, jobTitle |-> jobTitle, applicationId |-> applicationId,
   newStatus |-> newStatus]

Emitted(room, name, payload) ==
  IF EmitThrows THEN emitted
  ELSE Append(emitted, [room |-> room, name |-> name, payload |-> payload])

\* res.status(code).json(body): the handler of request r ends.  What is kept
\* of an answered request is who asked what of which document, the documents
\* the handler loaded and the response; the job fields of the body are dropped.
Done(r, code, body) ==
  [r EXCEPT !.pc = "done", !.res = [code |-> code, body |-> body],
            !.isActive = "unset", !.title = "unset"]

\* Slot p goes on as `out`: to its next await, or, answered, free again.
Step(p, out) ==
  IF out.pc = "done"
    THEN req' = [req EXCEPT ![p] = Idle] /\ sent' = out
    ELSE req' = [req EXCEPT ![p] = out] /\ UNCHANGED sent

\* A request enters the lowest free slot (the slots are interchangeable).
CanIssue(p) ==
  /\ req[p].op = "idle"
  /\ \A q \in Slots : q < p => req[q].op # "idle"
  /\ issued < MaxRequests

\* The database outlives the server process (connectDB() opens an existing
\* one).  The model starts on an empty database or on one the routes below
\* have filled before: user E1 posted job 1 and candidate C1 applied to it.
EmptyDb == [jobs |-> [j \in JobIds |-> UnusedJob], applications |-> <<>>]

SeededDb ==
  [jobs |-> [j \in JobIds |->
               IF j = 1 THEN [st |-> "live", employer |-> "E1",
                              isActive |-> TRUE, title |-> "t1"]
               ELSE UnusedJob],
   applications |-> <<[job |-> 1, candidate |-> "C1",
                       status |-> StatusDefault, createdAt |-> 0]>>]

Init ==
  /\ \E db \in {EmptyDb, SeededDb} :
       jobs = db.jobs /\ applications = db.applications
  /\ emitted = <<>>
  /\ req = [p \in Slots |-> Idle]
  /\ sent = Idle
  /\ issued = 0

\* ------------------------------------------------- POST /api/applications
\* authorizeCandidate, then Job.findOne({ _id: jobId, isActive: true })
Apply1(p, u, j, resume) ==
  /\ CanIssue(p)
  /\ issued' = issued + 1
  /\ LET r == [Idle EXCEPT !.op = "apply", !.user = u, !.jobId = j, !.resume = resume]
         job == JobFindOneActive(j)
     IN Step(p, IF ~authorizeCandidate(u) THEN Done(r, 403, <<>>)
                ELSE IF ~IsObjectId(j) THEN Done(r, 500, <<>>)  \* CastError: no kind test here
                ELSE IF job.id = 0 THEN Done(r, 404, <<>>)
                ELSE [r EXCEPT !.pc = "findExisting", !.job = job])
  /\ UNCHANGED <<jobs, applications, emitted>>

\* Application.findOne({ job: jobId, candidate: req.user.id })
Apply2(p) ==
  /\ req[p].op = "apply" /\ req[p].pc = "findExisting"
  /\ Step(p, IF ApplicationExists(req[p].jobId, req[p].user)
               THEN Done(req[p], 400, <<>>)
               ELSE [req[p] EXCEPT !.pc = "save"])
  /\ UNCHANGED <<jobs, applications, emitted, issued>>

\* Date.now(), the default of createdAt, read as the document is constructed:
\* the clock never runs backwards, so no earlier document is newer.
DateNow ==
  {t \in 0 .. MaxClock : \A i \in AppIds : applications[i].createdAt <= t}

\* new Application({...}).save(), the emit to employer-<job.employer>, res.json
Apply3(p) ==
  /\ req[p].op = "apply" /\ req[p].pc = "save"
  /\ \E now \in DateNow :
     LET r == req[p]
         doc == [job |-> r.jobId, candidate |-> r.user,
                 status |-> StatusDefault, createdAt |-> now]
         saved == [id |-> Len(applications) + 1, job |-> doc.job,
                   candidate |-> doc.candidate, status |-> doc.status,
                   createdAt |-> doc.createdAt]
     IN IF ~r.resume \/ ~UniqueIndexAdmits(r.jobId, r.user)
          THEN \* ValidationError (resume is required) or duplicate key: catch
               /\ Step(p, Done(r, 500, <<>>))
               /\ UNCHANGED <<applications, emitted>>
          ELSE /\ applications' = Append(applications, doc)
               /\ emitted' = Emitted(<<"employer", r.job.employer>>, "newApplication",
                                     Payload(r.job.id, r.job.title, saved.id, "none"))
               /\ Step(p, IF EmitThrows
                            THEN Done([r EXCEPT !.application = saved], 500, <<>>)
                            ELSE Done([r EXCEPT !.application = saved], 200, <<saved>>))
  /\ UNCHANGED <<jobs, issued>>

\* ------------------------------------- GET /api/applications/job/:jobId
\* Application.find({ job }).sort({ createdAt: -1 }): the matching documents,
\* newest first; the store fixes no order among equal createdAt values.
\* (mutant) sort({ createdAt: 1 }): oldest first
IsSortedAsc(s) ==
  \A i, k \in 1 .. Len(s) : i < k => s[i].createdAt <= s[k].createdAt

IsSortedDesc(s) ==
  \A i, k \in 1 .. Len(s) : i < k => s[i].createdAt >= s[k].createdAt

ApplicationFindByJobSorted(j) ==
  LET ids == {i \in AppIds : applications[i].job = j}
      n == Cardinality(ids)
  IN {s \in [1 .. n -> {AppDoc(i) : i \in ids}] :
        /\ \A i \in ids : \E k \in 1 .. n : s[k] = AppDoc(i)
        /\ IsSortedDesc(s)}

\* (mutant) listByJob with the admin override of the job routes
ListOwnerOrAdmin(u, job) == job.employer = u \/ Role(u) = "admin"

\* The ownership test of listByJob: job.employer.toString() !== req.user.id
ListOwner(u, job) == job.employer = u

\* Job.findById(req.params.jobId) and the ownership test
ListByJob1(p, u, j) ==
  /\ CanIssue(p)
  /\ issued' = issued + 1
  /\ LET r == [Idle EXCEPT !.op = "listByJob", !.user = u, !.jobId = j]
         job == JobFindById(j)
     IN Step(p, IF ~IsObjectId(j) \/ job.id = 0   \* CastError of kind ObjectId, or null
                  THEN Done(r, 404, <<>>)
                ELSE IF ~ListOwner(u, job) THEN Done([r EXCEPT !.job = job], 401, <<>>)
                ELSE [r EXCEPT !.pc = "find", !.job = job])
  /\ UNCHANGED <<jobs, applications, emitted>>

\* Application.find(...).populate(...).sort(...), res.json(applications)
ListByJob2(p) ==
  /\ req[p].op = "listByJob" /\ req[p].pc = "find"
  /\ \E s \in ApplicationFindByJobSorted(req[p].jobId) : Step(p, Done(req[p], 200, s))
  /\ UNCHANGED <<jobs, applications, emitted, issued>>

\* ---------------------------------------------- PUT /api/applications/:id
\* (mutant) updateStatus without the comparison of job.employer and req.user.id
StatusAnyEmployer(u, job) == job.id # 0

\* The ownership test of updateStatus: !job || job.employer.toString() !== req.user.id
StatusOwner(u, job) == job.id # 0 /\ job.employer = u

\* authorizeEmployer, the status validation, Application.findById(req.params.id)
UpdateStatus1(p, u, a, s) ==
  /\ CanIssue(p)
  /\ issued' = issued + 1
  /\ LET r == [Idle EXCEPT !.op = "updateStatus", !.user = u, !.appId = a, !.status = s]
         application == ApplicationFindById(a)
     IN Step(p, IF ~authorizeEmployer(u) THEN Done(r, 403, <<>>)
                ELSE IF s \notin StatusEnum THEN Done(r, 400, <<>>)
                ELSE IF ~IsObjectId(a) \/ application.id = 0 THEN Done(r, 404, <<>>)
                ELSE [r EXCEPT !.pc = "findJob", !.application = application])
  /\ UNCHANGED <<jobs, applications, emitted>>

\* Job.findById(application.job) and the ownership test
UpdateStatus2(p) ==
  /\ req[p].op = "updateStatus" /\ req[p].pc = "findJob"
  /\ LET job == JobFindById(req[p].application.job)
     IN Step(p, IF ~StatusOwner(req[p].user, job)
                  THEN Done([req[p] EXCEPT !.job = job], 401, <<>>)
                  ELSE [req[p] EXCEPT !.pc = "save", !.job = job])
  /\ UNCHANGED <<jobs, applications, emitted, issued>>

\* application.status = status; application.save(): mongoose writes the paths
\* whose value differs from the one the document was loaded with ($set of the
\* modified paths); assigning the loaded value leaves nothing to write.
SavedStatus(stored, loaded, status) == IF status # loaded THEN status ELSE stored

\* application.save(), the emit to user-<application.candidate>, res.json
UpdateStatus3(p) ==
  /\ req[p].op = "updateStatus" /\ req[p].pc = "save"
  /\ LET r == req[p]
         a == r.application.id
         updated == [r.application EXCEPT !.status = r.status]
     IN /\ applications' = [applications EXCEPT ![a].status =
                              SavedStatus(applications[a].status, r.application.status,
                                          r.status)]
        /\ emitted' = Emitted(<<"user", r.application.candidate>>,
                              "applicationStatusUpdated",
                              Payload(0, r.job.title, a, r.status))
        /\ Step(p, IF EmitThrows
                     THEN Done([r EXCEPT !.application = updated], 500, <<>>)
                     ELSE Done([r EXCEPT !.application = updated], 200, <<updated>>))
  /\ UNCHANGED <<jobs, issued>>

\* ------------------------------------------------------ POST /api/jobs
\* authorizeEmployer, new Job({...}).save(), io.emit('newJob'), res.json
PostJob(p, u, title) ==
  /\ CanIssue(p)
  /\ issued' = issued + 1
  /\ LET r == [Idle EXCEPT !.op = "postJob", !.user = u, !.title = title]
         free == {j \in JobIds : jobs[j].st = "unused"}
     IN IF ~authorizeEmployer(u)
          THEN /\ Step(p, Done(r, 403, <<>>))
               /\ UNCHANGED <<jobs, emitted>>
          ELSE /\ free # {}
               /\ LET j == CHOOSE x \in free : \A y \in free : x <= y
                  IN /\ jobs' = [jobs EXCEPT ![j] =
                                   [st |-> "live", employer |-> u,
                                    isActive |-> TRUE, title |-> title]]
                     /\ emitted' = Emitted(<<"all", "none">>, "newJob",
                                           Payload(j, title, 0, "none"))
                     /\ Step(p, Done([r EXCEPT !.jobId = j],
                                     IF EmitThrows THEN 500 ELSE 200, <<>>))
  /\ UNCHANGED <<applications>>

\* ------------------------------------------- PUT and DELETE /api/jobs/:id
\* The ownership test of job update and job delete:
\* job.employer.toString() !== req.user.id && req.user.role !== 'admin'
JobOwnerOrAdmin(u, job) == job.employer = u \/ Role(u) = "admin"

\* Job.findById(req.params.id) and the ownership test of PUT /api/jobs/:id
PutJob1(p, u, j, isActive, title) ==
  /\ CanIssue(p)
  /\ issued' = issued + 1
  /\ LET r == [Idle EXCEPT !.op = "putJob", !.user = u, !.jobId = j,
                           !.isActive = isActive, !.title = title]
         job == JobFindById(j)
     IN Step(p, IF ~IsObjectId(j) \/ job.id = 0 THEN Done(r, 404, <<>>)
                ELSE IF ~JobOwnerOrAdmin(u, job) THEN Done([r EXCEPT !.job = job], 401, <<>>)
                ELSE [r EXCEPT !.pc = "write", !.job = job])
  /\ UNCHANGED <<jobs, applications, emitted>>

\* Job.findByIdAndUpdate(id, { $set: jobFields }), io.emit('jobUpdated'), res.json
PutJob2(p) ==
  /\ req[p].op = "putJob" /\ req[p].pc = "write"
  /\ LET r == req[p]
         j == r.jobId
         old == jobs[j]
         new == [old EXCEPT
                   !.isActive = IF r.isActive = "unset" THEN old.isActive
                                ELSE r.isActive = "true",
                   !.title = IF r.title = "unset" THEN old.title ELSE r.title]
     IN /\ jobs' = IF old.st = "live" THEN [jobs EXCEPT ![j] = new] ELSE jobs
        /\ emitted' = Emitted(<<"all", "none">>, "jobUpdated",
                              Payload(j, new.title, 0, "none"))
        /\ Step(p, Done(r, IF EmitThrows THEN 500 ELSE 200, <<>>))
  /\ UNCHANGED <<applications, issued>>

\* Job.findById(req.params.id) and the ownership test of DELETE /api/jobs/:id
DeleteJob1(p, u, j) ==
  /\ CanIssue(p)
  /\ issued' = issued + 1
  /\ LET r == [Idle EXCEPT !.op = "deleteJob", !.user = u, !.jobId = j]
         job == JobFindById(j)
     IN Step(p, IF ~IsObjectId(j) \/ job.id = 0 THEN Done(r, 404, <<>>)
                ELSE IF ~JobOwnerOrAdmin(u, job) THEN Done([r EXCEPT !.job = job], 401, <<>>)
                ELSE [r EXCEPT !.pc = "write", !.job = job])
  /\ UNCHANGED <<jobs, applications, emitted>>

\* job.remove(), io.emit('jobDeleted'), res.json
DeleteJob2(p) ==
  /\ req[p].op = "deleteJob" /\ req[p].pc = "write"
  /\ jobs' = [jobs EXCEPT ![req[p].jobId] = RemovedJob]
  /\ emitted' = Emitted(<<"all", "none">>, "jobDeleted",
                        Payload(req[p].jobId, "none", 0, "none"))
  /\ Step(p, Done(req[p], IF EmitThrows THEN 500 ELSE 200, <<>>))
  /\ UNCHANGED <<applications, issued>>

\* ------------------------------------------------------------ requests
ActiveInputs == {"unset", "true", "false"}
\* a job is posted as "t1" and may be retitled "t2"
PostTitles == {"t1"}
TitleInputs == {"unset", "t2"}
\* ids a client may send: malformed (0), allocated or not
JobIdInputs == 0 .. MaxJobs
AppIdInputs == 0 .. Len(applications) + 1

Next ==
  \/ \E p \in Slots, u \in Users, j \in JobIdInputs, resume \in BOOLEAN :
       Apply1(p, u, j, resume)
  \/ \E p \in Slots : Apply2(p)
  \/ \E p \in Slots : Apply3(p)
  \/ \E p \in Slots, u \in Users, j \in JobIdInputs : ListByJob1(p, u, j)
  \/ \E p \in Slots : ListByJob2(p)
  \/ \E p \in Slots, u \in Users, a \in AppIdInputs, s \in StatusInputs :
       UpdateStatus1(p, u, a, s)
  \/ \E p \in Slots : UpdateStatus2(p)
  \/ \E p \in Slots : UpdateStatus3(p)
  \/ \E p \in Slots, u \in Users, title \in PostTitles : PostJob(p, u, title)
  \/ \E p \in Slots, u \in Users, j \in JobIdInputs,
        isActive \in ActiveInputs, title \in TitleInputs :
       PutJob1(p, u, j, isActive, title)
  \/ \E p \in Slots : PutJob2(p)
  \/ \E p \in Slots, u \in Users, j \in JobIdInputs : DeleteJob1(p, u, j)
  \/ \E p \in Slots : DeleteJob2(p)

Spec == Init /\ [][Next]_vars

\* ================================================================ claims
\* An answered request: sent holds a response.
Answered(op) == sent.op = op /\ sent.pc = "done"

\* ------------------------------------------------------------------- C1
\* C1: in every reachable state the Application collection holds at most one
\* document for each (job, candidate) pair.
C1_OnePerPair ==
  \A i, k \in AppIds :
    (applications[i].job = applications[k].job
       /\ applications[i].candidate = applications[k].candidate) => i = k

\* C1 witness: a create for a pair already stored got past both reads and was
\* refused by the store at the insert, the pair still being stored once.
C1_Witness ==
  /\ Answered("apply") /\ sent.resume /\ sent.job.id # 0
  /\ sent.application = NoApp /\ sent.res.code = 500
  /\ ApplicationExists(sent.jobId, sent.user)

\* A step in which a request is answered, and the slot that answered it.
Answers(p) == req[p].op # "idle" /\ req'[p].op = "idle"
\* A step in which a request is issued and answered at its first read.
AnswersAtOnce == issued' = issued + 1 /\ req' = req

\* ------------------------------------------------------------------- C2
\* C2 (as claimed): of two concurrent creates for one (job, candidate) pair
\* on an active job, the one that does not create the Application fails with
\* Conflict (400): a create by a candidate, with a resume, on a job found
\* active, that stored nothing, is answered 400.
C2_LoserGetsConflict ==
  (Answered("apply") /\ sent.resume /\ sent.job.id # 0 /\ sent.application = NoApp)
    => sent.res.code = 400

\* ------------------------------------------------------------------- C3
\* C3 (as claimed): an Application is inserted only if, at the moment of the
\* insert, its job exists and has isActive = true.
C3_InsertOnlyOnActiveJob ==
  [][Len(applications') > Len(applications) =>
       LET j == applications'[Len(applications')].job
       IN jobs[j].st = "live" /\ jobs[j].isActive]_vars

\* ------------------------------------------------------------------- C4
\* The employer of the job of stored application a differs from user u.
NotEmployerOf(u, a) ==
  /\ a \in AppIds
  /\ jobs[applications[a].job].st = "live"
  /\ jobs[applications[a].job].employer # u

\* C4 (as claimed): every updateStatus call by a requester who is not the
\* employer of the application's job and is no admin fails with Unauthorized
\* (401 of the ownership test, or 403 of the role gate) and leaves the
\* statuses unchanged.
C4_Original ==
  [][\A p \in Slots :
       LET r == IF AnswersAtOnce THEN sent' ELSE req[p]
       IN ((AnswersAtOnce \/ Answers(p)) /\ r.op = "updateStatus"
             /\ NotEmployerOf(r.user, r.appId) /\ Role(r.user) # "admin")
          => (sent'.res.code \in {401, 403} /\ applications' = applications)]_vars

\* C4 (amended): a status changes only in the save of an updateStatus call
\* whose requester has the employer role and is the employer of the
\* application's job; a call by a requester who is not that employer changes
\* no status and fails: with 403 without the employer role, else with 400
\* (BadRequest) for a status outside the enum, else with 401 (Unauthorized).
C4_StatusOnlyByOwner ==
  [][/\ \A i \in AppIds :
          applications'[i].status # applications[i].status =>
            \E p \in Slots :
              /\ Answers(p) /\ req[p].op = "updateStatus" /\ req[p].pc = "save"
              /\ req[p].application.id = i
              /\ Role(req[p].user) = "employer"
              /\ req[p].job.id = applications[i].job
              /\ req[p].job.employer = req[p].user
              /\ jobs[applications[i].job].st = "live" =>
                   jobs[applications[i].job].employer = req[p].user
     /\ \A p \in Slots :
          LET r == IF AnswersAtOnce THEN sent' ELSE req[p]
          IN ((AnswersAtOnce \/ Answers(p)) /\ r.op = "updateStatus"
                /\ NotEmployerOf(r.user, r.appId))
             => /\ applications' = applications
                /\ sent'.res.code =
                     IF Role(r.user) # "employer" THEN 403
                     ELSE IF r.status \notin StatusEnum THEN 400 ELSE 401]_vars

\* C4 witness: an employer who does not own the job was refused with 401 on
\* an application whose status the owner had changed before.
C4_Witness ==
  /\ Answered("updateStatus") /\ sent.res.code = 401
  /\ sent.job.id # 0 /\ sent.job.employer # sent.user
  /\ applications[sent.application.id].status # StatusDefault

\* ------------------------------------------------------------------- C5
\* C5 (as claimed): updateStatus by the owning employer with one of the four
\* statuses succeeds, and with any other status fails with BadRequest.
C5_OwnerUpdateSucceeds ==
  (Answered("updateStatus") /\ Role(sent.user) = "employer")
    => /\ sent.status \notin StatusEnum => sent.res.code = 400
       /\ (sent.job.id # 0 /\ sent.job.employer = sent.user)
            => (sent.res.code = 200 /\ sent.application.status = sent.status)

\* ------------------------------------------------------------------- C6
\* The four ownership-gated operations.
OwnershipGated == {"putJob", "deleteJob", "listByJob", "updateStatus"}

\* Request r was not refused by a role or ownership test.
Admitted(r) == r.pc # "done" \/ r.res.code \notin {401, 403}

\* Every request in progress or answered last.
Requests == {req[p] : p \in Slots} \cup {sent}

\* C6 (as claimed): each of the four operations, having resolved the job,
\* admits the actor if and only if actor.id = job.employer or the actor is
\* an admin.
C6_Original ==
  \A r \in Requests :
    (r.op \in OwnershipGated /\ r.job.id # 0)
      => (Admitted(r) <=> (r.user = r.job.employer \/ Role(r.user) = "admin"))

\* C6 (amended): job update and job delete admit the actor iff actor.id =
\* job.employer or the actor is an admin; listByJob admits iff actor.id =
\* job.employer; updateStatus refuses every actor without the employer role
\* (403) and admits an employer iff actor.id = job.employer.  An admin who is
\* not the job's employer is admitted by job update and job delete only.
C6_OwnershipPerRoute ==
  \A r \in Requests :
    /\ (r.op \in {"putJob", "deleteJob"} /\ r.job.id # 0)
         => (Admitted(r) <=> (r.user = r.job.employer \/ Role(r.user) = "admin"))
    /\ (r.op = "listByJob" /\ r.job.id # 0)
         => (Admitted(r) <=> r.user = r.job.employer)
    /\ (r.op = "updateStatus" /\ Role(r.user) # "employer")
         => (r.pc = "done" /\ r.res.code = 403)
    /\ (r.op = "updateStatus" /\ r.job.id # 0)
         => (Admitted(r) <=> r.user = r.job.employer)

\* C6 witness: an admin who is not the job's employer was refused by listByJob.
C6_Witness ==
  /\ Answered("listByJob") /\ Role(sent.user) = "admin"
  /\ sent.job.id # 0 /\ sent.job.employer # sent.user /\ sent.res.code = 401

\* ------------------------------------------------------------------- C7
\* The event a create that stored application a for loaded job `job` owes.
NewApplicationEvent(job, a) ==
  [room |-> <<"employer", job.employer>>, name |-> "newApplication",
   payload |-> Payload(job.id, job.title, a, "none")]

\* The event an updateStatus that saved owes.
StatusUpdatedEvent(r) ==
  [room |-> <<"user", r.application.candidate>>, name |-> "applicationStatusUpdated",
   payload |-> Payload(0, r.job.title, r.application.id, r.status)]

\* C7 (as claimed): a create that stored its Application and an updateStatus
\* that saved the status each emit exactly one event, newApplication to
\* employer-<job.employer> and applicationStatusUpdated to user-<candidate>;
\* every other step of a create or updateStatus emits nothing.
C7_OneEventPerSuccess ==
  [][\A p \in Slots :
       (Answers(p) /\ req[p].op \in {"apply", "updateStatus"}) =>
         emitted' =
           IF req[p].op = "apply" /\ Len(applications') > Len(applications)
             THEN Append(emitted, NewApplicationEvent(req[p].job, Len(applications')))
           ELSE IF req[p].op = "updateStatus" /\ req[p].pc = "save"
             THEN Append(emitted, StatusUpdatedEvent(req[p]))
           ELSE emitted]_vars

\* ------------------------------------------------------------------- C8
\* C8 (as claimed): once the storage write of a create or an updateStatus has
\* succeeded, the request is answered with the Application (200), whatever
\* the emit does.
C8_EmitFailureSwallowed ==
  /\ (Answered("apply") /\ sent.application.id # 0) => sent.res.code = 200
  /\ (Answered("updateStatus") /\ sent.job.id # 0 /\ sent.job.employer = sent.user)
       => sent.res.code = 200

\* ------------------------------------------------------------------- C9
\* C9 (as claimed): updateStatus on an existing Application whose job cannot
\* be resolved fails with NotFound (404).
C9_MissingJobNotFound ==
  (Answered("updateStatus") /\ sent.application.id # 0 /\ sent.job.id = 0)
    => sent.res.code = 404

\* ------------------------------------------------------------------ C10
\* C10: listByJob answers 404 when no job has the id, 401 when the requester
\* is not the job's employer, and otherwise 200 with exactly the stored
\* Applications of that job, newest first.
C10_ListByJob ==
  [][\A p \in Slots :
       LET r == IF AnswersAtOnce THEN sent' ELSE IF Answers(p) THEN req[p] ELSE req'[p]
           live == r.jobId \in JobIds /\ jobs[r.jobId].st = "live"
           ids == {i \in AppIds : applications[i].job = r.jobId}
           body == sent'.res.body
       IN r.op = "listByJob" =>
            /\ AnswersAtOnce =>
                 /\ ~live \/ jobs[r.jobId].employer # r.user
                 /\ sent'.res.code = IF live THEN 401 ELSE 404
            /\ (req[p].op = "idle" /\ req'[p].op = "listByJob") =>
                 (live /\ jobs[r.jobId].employer = r.user)
            /\ Answers(p) =>
                 /\ sent'.res.code = 200
                 /\ Len(body) = Cardinality(ids)
                 /\ \A i \in ids : \E k \in 1 .. Len(body) : body[k] = AppDoc(i)
                 /\ \A k \in 1 .. Len(body) : body[k].job = r.jobId
                 /\ \A i, k \in 1 .. Len(body) :
                      i < k => body[i].createdAt >= body[k].createdAt]_vars

\* C10 witness: a listing of two Applications of one job with different
\* createdAt, the newer one first.
C10_Witness ==
  /\ Answered("listByJob") /\ sent.res.code = 200
  /\ Len(sent.res.body) = 2
  /\ sent.res.body[1].createdAt > sent.res.body[2].createdAt

\* ------------------------------------------------------------------ C11
\* C11 (as claimed): a create or updateStatus request that is answered with
\* an error (any code but 200) has added no Application and changed no
\* status: the step that answers it leaves the collection as it was, and it
\* is the only step of the request that can write.
C11_ErrorLeavesStore ==
  [][\A p \in Slots :
       LET r == IF AnswersAtOnce THEN sent' ELSE req[p]
       IN ((AnswersAtOnce \/ Answers(p)) /\ r.op \in {"apply", "updateStatus"}
             /\ sent'.res.code # 200)
          => applications' = applications]_vars

\* ------------------------------------------------------------------ C12
\* C12 (as claimed): when two updateStatus calls of the owning employer for one
\* Application with different valid statuses have both been answered, the
\* newStatus announced by the call that finished last is the status stored in
\* the Application.  The event is taken as the call builds it and hands it to
\* the emit expression, whether or not the expression delivers it.
C12_LastEventMatchesStore ==
  [][\A p \in Slots :
       (/\ Answers(p) /\ req[p].op = "updateStatus" /\ req[p].pc = "save"
        /\ Answered("updateStatus") /\ StatusOwner(sent.user, sent.job)
        /\ StatusOwner(req[p].user, req[p].job)
        /\ sent.application.id = req[p].application.id
        /\ sent.status # req[p].status)
       => StatusUpdatedEvent(req[p]).payload.newStatus
            = applications'[req[p].application.id].status]_vars

====
